---- MODULE Spec2Model ----
(***************************************************************************)
(* Model of the Live2D asset mirror (AzurLanel2d).                         *)
(*                                                                         *)
(*   src/1model.new.py  safe_path_join, download_file, extract_assets,     *)
(*                      process_model, main                                *)
(*   src/1model.py      process_live2d_master_json                         *)
(*   src/2audio.py      download_file, process_audio                       *)
(*                                                                         *)
(* Strings are sequences of one-character strings, so that the path        *)
(* sanitizer, the host stripping and the path rewriting are computed       *)
(* character by character, as the code computes them.  Paths follow the    *)
(* POSIX flavour of os.path.                                               *)
(*                                                                         *)
(* Specifications:                                                         *)
(*   Spec       one call of download_file, step by step, on a disk that    *)
(*              may already hold a complete copy of the destination        *)
(*   FairSpec   Spec with weak fairness on the steps of the call           *)
(*   PoolSpec   process_model: the dependent fetches of one descriptor     *)
(*              run by the pool workers, interleaved step by step          *)
(*   PathSpec   safe_path_join on every bounded base and reference         *)
(*   MirrorSpec main: bootstrap, manifest, the loop over the model         *)
(*              entries, the manifest write-back, and a second run         *)
(*   SigintSpec one run of main with an operator interrupt at any point    *)
(*   LegacySpec process_live2d_master_json of src/1model.py                *)
(*   AudioSpec  process_audio and download_file of src/2audio.py           *)
(***************************************************************************)
EXTENDS Integers, Sequences, FiniteSets, TLC

(***************************************************************************)
(* Configuration of src/1model.new.py                                      *)
(***************************************************************************)
MAX_RETRIES == 5
RETRY_DELAY == 5

STATIC_HOST == <<"h","t","t","p","s",":","/","/","s","t","a","t","i","c",".","l","2","d",".","s","u","/">>

(***************************************************************************)
(* Bounds of the model                                                     *)
(***************************************************************************)
\* chunks in a response body (iter_content yields BodyLen chunks)
BodyLen == 2
\* longest raw reference handed to safe_path_join in PathSpec
MaxRefLen == 4
\* model entries in the manifest of MirrorSpec
MaxModels == 2
\* runs of the mirror in MirrorSpec
MaxRuns == 2

(***************************************************************************)
(* Strings                                                                 *)
(***************************************************************************)
\* s.startswith(p)
StartsWith(s, p) == Len(s) >= Len(p) /\ SubSeq(s, 1, Len(p)) = p

\* s.endswith(p)
EndsWith(s, p) == Len(s) >= Len(p) /\ SubSeq(s, Len(s) - Len(p) + 1, Len(s)) = p

\* the positions at which sep occurs in s
Occurrences(s, sep) ==
    {i \in 1..(Len(s) - Len(sep) + 1) : SubSeq(s, i, i + Len(sep) - 1) = sep}

\* sep in s
Contains(s, sep) == Occurrences(s, sep) # {}

RECURSIVE Split(_, _)
\* s.split(sep): the pieces between the occurrences of sep, left to right
Split(s, sep) ==
    IF Occurrences(s, sep) = {} THEN <<s>>
    ELSE LET i == CHOOSE k \in Occurrences(s, sep) :
                      \A j \in Occurrences(s, sep) : k <= j
         IN  <<SubSeq(s, 1, i - 1)>> \o Split(SubSeq(s, i + Len(sep), Len(s)), sep)

\* seq[-1]
Last(seq) == seq[Len(seq)]

\* s.replace(a, b) for one-character a and b
ReplaceChar(s, a, b) == [i \in 1..Len(s) |-> IF s[i] = a THEN b ELSE s[i]]

RECURSIVE JoinWith(_, _)
\* sep.join(parts)
JoinWith(parts, sep) ==
    IF Len(parts) = 0 THEN << >>
    ELSE IF Len(parts) = 1 THEN parts[1]
    ELSE parts[1] \o sep \o JoinWith(Tail(parts), sep)

\* a string that is not empty
NonEmpty(p) == Len(p) > 0

\* the strings of seq that are not empty, in order
DropEmpty(seq) == SelectSeq(seq, NonEmpty)

(***************************************************************************)
(* os.path (posixpath)                                                     *)
(***************************************************************************)
SLASH == <<"/">>

RECURSIVE PathJoin(_, _)
\* os.path.join(a, *p)
PathJoin(a, p) ==
    IF Len(p) = 0 THEN a
    ELSE LET b == Head(p)
             nxt == IF StartsWith(b, SLASH) THEN b
                    ELSE IF Len(a) = 0 \/ EndsWith(a, SLASH) THEN a \o b
                    ELSE a \o SLASH \o b
         IN  PathJoin(nxt, Tail(p))

RECURSIVE NormComps(_, _, _)
\* the loop of os.path.normpath over the components
NormComps(comps, new_comps, initial_slashes) ==
    IF Len(comps) = 0 THEN new_comps
    ELSE LET comp == Head(comps)
             rest == Tail(comps)
         IN  IF comp = << >> \/ comp = <<".">>
             THEN NormComps(rest, new_comps, initial_slashes)
             ELSE IF \/ comp # <<".", ".">>
                     \/ (initial_slashes = 0 /\ Len(new_comps) = 0)
                     \/ (Len(new_comps) > 0 /\ Last(new_comps) = <<".", ".">>)
             THEN NormComps(rest, Append(new_comps, comp), initial_slashes)
             ELSE IF Len(new_comps) > 0
             THEN NormComps(rest, SubSeq(new_comps, 1, Len(new_comps) - 1), initial_slashes)
             ELSE NormComps(rest, new_comps, initial_slashes)

\* os.path.normpath(path)
NormPath(path) ==
    IF Len(path) = 0 THEN <<".">>
    ELSE LET initial_slashes ==
                 IF ~StartsWith(path, SLASH) THEN 0
                 ELSE IF StartsWith(path, <<"/", "/">>) /\ ~StartsWith(path, <<"/", "/", "/">>)
                      THEN 2 ELSE 1
             comps == NormComps(Split(path, SLASH), << >>, initial_slashes)
             body == JoinWith(comps, SLASH)
             out == IF initial_slashes = 2 THEN <<"/", "/">> \o body
                    ELSE IF initial_slashes = 1 THEN SLASH \o body
                    ELSE body
         IN  IF Len(out) = 0 THEN <<".">> ELSE out

\* path.rfind("/") + 1
AfterLastSlash(path) ==
    IF Occurrences(path, SLASH) = {} THEN 0
    ELSE CHOOSE k \in Occurrences(path, SLASH) : \A j \in Occurrences(path, SLASH) : j <= k

RECURSIVE RStripSlash(_)
\* head.rstrip("/")
RStripSlash(s) ==
    IF Len(s) > 0 /\ Last(s) = "/" THEN RStripSlash(SubSeq(s, 1, Len(s) - 1)) ELSE s

\* os.path.dirname(path)
DirName(path) ==
    LET head == SubSeq(path, 1, AfterLastSlash(path))
    IN  IF Len(head) > 0 /\ (\E i \in 1..Len(head) : head[i] # "/")
        THEN RStripSlash(head) ELSE head

\* os.path.basename(path)
BaseName(path) == SubSeq(path, AfterLastSlash(path) + 1, Len(path))

(***************************************************************************)
(* safe_path_join                                                          *)
(***************************************************************************)
\* the character class [\\:*?"<>|]
InvalidChars == {"\\", ":", "*", "?", "\"", "<", ">", "|"}

\* re.sub(invalid_chars, "_", p)
ReSubInvalid(p) == [i \in 1..Len(p) |-> IF p[i] \in InvalidChars THEN "_" ELSE p[i]]

\* [re.sub(invalid_chars, "_", p) for p in parts if p]
CleanParts(rel_path) ==
    LET parts == Split(ReplaceChar(rel_path, "\\", "/"), SLASH)
        kept == DropEmpty(parts)
    IN  [i \in 1..Len(kept) |-> ReSubInvalid(kept[i])]

\* rel_path.split("://")[-1] when "://" occurs in rel_path
StripScheme(rel_path) ==
    IF Contains(rel_path, <<":", "/", "/">>)
    THEN Last(Split(rel_path, <<":", "/", "/">>))
    ELSE rel_path

safe_path_join(base, rel_path) ==
    NormPath(PathJoin(base, CleanParts(StripScheme(rel_path))))

(***************************************************************************)
(* State                                                                   *)
(***************************************************************************)
VARIABLES
    task,   \* the calls of download_file: task[t] holds the locals of call t
    fs,     \* the disk: path -> file, for the paths that exist
    remote, \* the server: URL -> the JSON document served there
    pm,     \* the locals of process_model
    sanit,  \* one call of safe_path_join: its arguments and its result
    mn,     \* the locals of main
    saved   \* the text files main itself wrote: path -> document

vars == <<task, fs, remote, pm, sanit, mn, saved>>

\* what the steps of download_file leave alone
notFetch == <<remote, pm, sanit, mn, saved>>
\* what the steps of process_model leave alone
notPool == <<sanit, mn, saved>>

(***************************************************************************)
(* Files.  A file is its content, a sequence of chunks, and the set of     *)
(* calls that hold it open for writing.  A chunk is labelled with the URL  *)
(* whose body it belongs to; OldChunk labels the bytes of a copy mirrored  *)
(* by an earlier run and Hole the bytes never written below an offset.     *)
(***************************************************************************)
OldChunk == <<"o", "l", "d">>
Hole == << >>

\* the complete response body of url
Body(url) == [i \in 1..BodyLen |-> url]

\* a complete copy left by an earlier run
OldCopy == [content |-> [i \in 1..BodyLen |-> OldChunk], open |-> {}]

\* os.path.exists(path)
Exists(path) == path \in DOMAIN fs

\* os.path.getsize(path), in chunks
GetSize(path) == Len(fs[path].content)

\* the disk with path bound to file
Put(disk, path, file) ==
    [q \in DOMAIN disk \cup {path} |-> IF q = path THEN file ELSE disk[q]]

Keep(disk, path) == disk
\* the disk without path
Unlink(disk, path) == [q \in DOMAIN disk \ {path} |-> disk[q]]

\* local_filepath + ".tmp"
TmpPath(local_filepath) == local_filepath \o <<".", "t", "m", "p">>

\* f.write(chunk) at offset off of a file
WriteAt(content, off, chunk) ==
    [i \in 1..(IF Len(content) > off THEN Len(content) ELSE off + 1) |->
        IF i = off + 1 THEN chunk
        ELSE IF i <= Len(content) THEN content[i]
        ELSE Hole]

\* the disk after call t wrote chunk at offset off of the file it holds open
\* (a file unlinked or replaced while open takes the write with it)
WriteOpen(disk, t, off, chunk) ==
    [q \in DOMAIN disk |->
        IF t \in disk[q].open
        THEN [disk[q] EXCEPT !.content = WriteAt(@, off, chunk)]
        ELSE disk[q]]

\* the disk after call t closed its file
CloseOpen(disk, t) ==
    [q \in DOMAIN disk |-> [disk[q] EXCEPT !.open = @ \ {t}]]

(***************************************************************************)
(* download_file (src/1model.new.py)                                       *)
(***************************************************************************)
\* HTTP statuses the server answers with; 0 stands for no response at all
\* (timeout, connection reset, DNS failure: a RequestException)
GetOutcomes == {0, 200, 403, 404, 500}

\* outcomes of session.head: an exception, or a status with the
\* Content-Length header (-1: header absent, the default of headers.get)
NoHead == [exc |-> FALSE, status |-> 0, clen |-> -1]
HeadOutcomes ==
    {[exc |-> TRUE, status |-> 0, clen |-> -1]} \cup
    [exc : {FALSE}, status : {200, 404}, clen : {-1} \cup 1..BodyLen]

\* lines 84-91: the remote size the probe yields
ProbeSizeAnyStatus(h) == IF h.exc THEN -1 ELSE h.clen
ProbeSize(h) == IF h.exc THEN -1 ELSE IF h.status = 200 THEN h.clen ELSE -1

\* lines 94-96: the fast path is taken
CanSkip(force, exists, local_size, remote_size) ==
    ~force /\ exists /\ remote_size # -1 /\ local_size = remote_size

\* line 109: the status that ends the call at once
IsNotFoundNever(status) == FALSE
IsNotFound(status) == status = 404

\* response.raise_for_status(): HTTPError for 4xx and 5xx
RaisesForStatus(status) == 400 <= status /\ status < 600

\* line 137: the backoff before the next attempt (attempt counts from 0)
BackoffConstant(attempt) == RETRY_DELAY
Backoff(attempt) == RETRY_DELAY * (attempt + 1)

\* line 100: the attempts of the loop, range(MAX_RETRIES)
LastAttempt == MAX_RETRIES - 1

\* a fresh call of download_file(url, local_filepath, force)
NewTask(url, local_filepath, force, pc) ==
    [url |-> url, local |-> NormPath(local_filepath), force |-> force, pc |-> pc,
     head |-> NoHead, remote_size |-> -1, attempt |-> 0, resp |-> 0, off |-> 0,
     gets |-> 0, sleeps |-> << >>, result |-> FALSE]

\* lines 135-142: the except clause of attempt k, then the next turn of the loop
Retry(r) ==
    IF r.attempt < LastAttempt
    THEN [r EXCEPT !.sleeps = Append(@, Backoff(r.attempt)),
                   !.attempt = @ + 1, !.pc = "get", !.off = 0]
    ELSE [r EXCEPT !.pc = "done", !.result = FALSE, !.off = 0]

Return(r, value) == [r EXCEPT !.pc = "done", !.result = value]

\* a file lies in directory dir, so that dir exists
DirExists(disk, dir) == \E q \in DOMAIN disk : StartsWith(q, dir \o SLASH)

\* lines 75-76: os.makedirs(local_dir, exist_ok=True) is called for a
\* directory name that is not empty, and cannot fail on a directory that is there
MakedirsCanFail(disk, local_filepath) ==
    /\ Len(DirName(local_filepath)) > 0
    /\ ~DirExists(disk, DirName(local_filepath))

\* lines 74-81: os.makedirs, which may fail (StorageError)
Makedirs(t) ==
    /\ task[t].pc = "makedirs"
    /\ \E ok \in (IF MakedirsCanFail(fs, task[t].local) THEN BOOLEAN ELSE {TRUE}) :
          task' = [task EXCEPT ![t] =
                      IF ok THEN [@ EXCEPT !.pc = IF task[t].force THEN "check" ELSE "head"]
                      ELSE Return(@, FALSE)]
    /\ UNCHANGED fs
    /\ UNCHANGED notFetch

\* lines 84-91: the HEAD probe
HeadProbe(t) ==
    /\ task[t].pc = "head"
    /\ \E h \in HeadOutcomes :
          task' = [task EXCEPT ![t] =
                      [@ EXCEPT !.head = h, !.remote_size = ProbeSize(h), !.pc = "check"]]
    /\ UNCHANGED fs
    /\ UNCHANGED notFetch

\* lines 94-98: the fast path.  The probe's answer and remote_size are not
\* read after line 96, so the call keeps them no longer
Check(t) ==
    /\ task[t].pc = "check"
    /\ LET r == task[t]
           exists == Exists(r.local)
           local_size == IF exists THEN GetSize(r.local) ELSE 0
           past == [r EXCEPT !.head = NoHead, !.remote_size = -1]
       IN  task' = [task EXCEPT ![t] =
                       IF CanSkip(r.force, exists, local_size, r.remote_size)
                       THEN Return(past, TRUE)
                       ELSE [past EXCEPT !.pc = "get"]]
    /\ UNCHANGED fs
    /\ UNCHANGED notFetch

\* lines 101-115: one GET attempt
Get(t) ==
    /\ task[t].pc = "get"
    /\ \E status \in GetOutcomes :
          LET r == [task[t] EXCEPT !.gets = @ + 1, !.resp = status]
          IN  task' = [task EXCEPT ![t] =
                          IF status = 0 THEN Retry(r)
                          ELSE IF IsNotFound(status) THEN Return(r, FALSE)
                          ELSE IF RaisesForStatus(status) THEN Retry(r)
                          ELSE [r EXCEPT !.pc = "open"]]
    /\ UNCHANGED fs
    /\ UNCHANGED notFetch

\* lines 117-119: open(tmp_path, "wb") creates or truncates the temp file
Open(t) ==
    /\ task[t].pc = "open"
    /\ LET r == task[t]
           tmp_path == TmpPath(r.local)
           writers == IF Exists(tmp_path) THEN fs[tmp_path].open ELSE {}
       IN  \E ok \in BOOLEAN :
              IF ok
              THEN /\ fs' = Put(fs, tmp_path, [content |-> << >>, open |-> writers \cup {t}])
                   /\ task' = [task EXCEPT ![t] = [r EXCEPT !.pc = "write", !.off = 0]]
              ELSE /\ fs' = fs
                   /\ task' = [task EXCEPT ![t] = Retry(r)]
    /\ UNCHANGED notFetch

\* lines 121-124: the next chunk of the body is written, the last one closes
\* the file; or the stream breaks, or the write fails, and the file is closed
Write(t) ==
    /\ task[t].pc = "write"
    /\ LET r == task[t]
       IN  \E ok \in BOOLEAN :
              IF ok
              THEN LET written == WriteOpen(fs, t, r.off, r.url)
                   IN  IF r.off + 1 < BodyLen
                       THEN /\ fs' = written
                            /\ task' = [task EXCEPT ![t] = [r EXCEPT !.off = @ + 1]]
                       ELSE /\ fs' = CloseOpen(written, t)
                            /\ task' = [task EXCEPT ![t] =
                                           [r EXCEPT !.off = 0, !.pc = "exists"]]
              ELSE /\ fs' = CloseOpen(fs, t)
                   /\ task' = [task EXCEPT ![t] = Retry(r)]
    /\ UNCHANGED notFetch

\* line 128: os.path.exists(local_filepath)
ExistsTest(t) ==
    /\ task[t].pc = "exists"
    /\ task' = [task EXCEPT ![t] =
                   [@ EXCEPT !.pc = IF Exists(task[t].local) THEN "remove" ELSE "rename"]]
    /\ UNCHANGED fs
    /\ UNCHANGED notFetch

\* line 129: os.remove(local_filepath)
Remove(t) ==
    /\ task[t].pc = "remove"
    /\ LET r == task[t]
       IN  \E ok \in BOOLEAN :
              IF ok /\ Exists(r.local)
              THEN /\ fs' = Unlink(fs, r.local)
                   /\ task' = [task EXCEPT ![t] = [r EXCEPT !.pc = "rename"]]
              ELSE /\ fs' = fs
                   /\ task' = [task EXCEPT ![t] = Retry(r)]
    /\ UNCHANGED notFetch

\* lines 130-133: os.rename(tmp_path, local_filepath)
Rename(t) ==
    /\ task[t].pc = "rename"
    /\ LET r == task[t]
           tmp_path == TmpPath(r.local)
       IN  \E ok \in BOOLEAN :
              IF ok /\ Exists(tmp_path)
              THEN /\ fs' = Put(Unlink(fs, tmp_path), r.local, fs[tmp_path])
                   /\ task' = [task EXCEPT ![t] = Return(r, TRUE)]
              ELSE /\ fs' = fs
                   /\ task' = [task EXCEPT ![t] = Retry(r)]
    /\ UNCHANGED notFetch

\* one step of call t
FetchStep(t) ==
    \/ Makedirs(t)
    \/ HeadProbe(t)
    \/ Check(t)
    \/ Get(t)
    \/ Open(t)
    \/ Write(t)
    \/ ExistsTest(t)
    \/ Remove(t)
    \/ Rename(t)

(***************************************************************************)
(* urllib.parse.urljoin, for references without scheme, query or fragment  *)
(***************************************************************************)
\* scheme://host of an absolute URL
UrlOrigin(url) ==
    LET i == CHOOSE k \in Occurrences(url, <<":", "/", "/">>) :
                 \A j \in Occurrences(url, <<":", "/", "/">>) : k <= j
        rest == SubSeq(url, i + 3, Len(url))
        host == Head(Split(rest, SLASH))
    IN  SubSeq(url, 1, i + 2 + Len(host))

\* the path of an absolute URL
UrlPath(url) == SubSeq(url, Len(UrlOrigin(url)) + 1, Len(url))

RECURSIVE ResolveDots(_, _)
\* the loop of urljoin that resolves "." and ".." segments
ResolveDots(segments, resolved_path) ==
    IF Len(segments) = 0 THEN resolved_path
    ELSE LET seg == Head(segments)
         IN  IF seg = <<".", ".">>
             THEN ResolveDots(Tail(segments),
                              IF Len(resolved_path) > 0
                              THEN SubSeq(resolved_path, 1, Len(resolved_path) - 1)
                              ELSE resolved_path)
             ELSE IF seg = <<".">> THEN ResolveDots(Tail(segments), resolved_path)
             ELSE ResolveDots(Tail(segments), Append(resolved_path, seg))

UrlJoin(base, path) ==
    LET bparts == Split(UrlPath(base), SLASH)
        base_parts == IF Last(bparts) # << >> THEN SubSeq(bparts, 1, Len(bparts) - 1)
                      ELSE bparts
        all == base_parts \o Split(path, SLASH)
        segments ==
            IF StartsWith(path, SLASH) THEN Split(path, SLASH)
            ELSE IF Len(all) < 3 THEN all
            ELSE <<all[1]>> \o DropEmpty(SubSeq(all, 2, Len(all) - 1))
                            \o <<all[Len(all)]>>
        resolved == ResolveDots(segments, << >>)
        closed == IF Last(segments) \in {<<".">>, <<".", ".">>}
                  THEN Append(resolved, << >>) ELSE resolved
        joined == JoinWith(closed, SLASH)
    IN  UrlOrigin(base) \o (IF Len(joined) = 0 THEN SLASH ELSE joined)

(***************************************************************************)
(* extract_assets                                                          *)
(*                                                                         *)
(* A JSON value is [tag |-> "str", s |-> string], [tag |-> "num"], or      *)
(* [tag |-> "list" or "dict", items |-> the elements or the values].       *)
(***************************************************************************)
JStr(s) == [tag |-> "str", s |-> s]
JNum == [tag |-> "num"]
JList(items) == [tag |-> "list", items |-> items]
JDict(items) == [tag |-> "dict", items |-> items]

\* what json.load raises on
BadJson == [tag |-> "bad"]

Uppers == <<"P", "N", "G", "J", "S", "O">>
Lowers == <<"p", "n", "g", "j", "s", "o">>

\* str.lower()
Lower(s) ==
    [i \in 1..Len(s) |->
        IF \E k \in 1..Len(Uppers) : Uppers[k] = s[i]
        THEN Lowers[CHOOSE k \in 1..Len(Uppers) : Uppers[k] = s[i]]
        ELSE s[i]]

\* exts = (".moc3", ".model3.json", ".json", ".png", ".wav", ".mp3")
Exts ==
    {<<".", "m", "o", "c", "3">>,
     <<".", "m", "o", "d", "e", "l", "3", ".", "j", "s", "o", "n">>,
     <<".", "j", "s", "o", "n">>,
     <<".", "p", "n", "g">>,
     <<".", "w", "a", "v">>,
     <<".", "m", "p", "3">>}

RECURSIVE Walk(_)
\* _walk(obj): the string leaves that end with an asset suffix
Walk(obj) ==
    IF obj.tag = "str"
    THEN IF \E e \in Exts : EndsWith(Lower(obj.s), e) THEN {obj.s} ELSE {}
    ELSE IF obj.tag \in {"dict", "list"}
    THEN UNION {Walk(obj.items[i]) : i \in 1..Len(obj.items)}
    ELSE {}

extract_assets(data) == Walk(data)

(***************************************************************************)
(* process_model                                                           *)
(***************************************************************************)
MAX_WORKERS == 8

NoRemote == [u \in {} |-> BadJson]
NoSaved == [q \in {} |-> BadJson]
NoSanit == [pc |-> "none", base |-> << >>, rel_path |-> << >>, out |-> << >>]
NoMain == [pc |-> "none"]
NoCall == [pc |-> "none", local_path |-> << >>, url |-> << >>,
           todo |-> {}, futures |-> {}]

\* json.load of the file at path: the document of the URL whose complete body
\* the file holds; anything else does not parse
LoadJson(path) ==
    IF Exists(path) /\ \E u \in DOMAIN remote : fs[path].content = Body(u)
    THEN remote[CHOOSE u \in DOMAIN remote : fs[path].content = Body(u)]
    ELSE BadJson

\* lines 167-174: the descriptor is read; a failure returns
PMLoad ==
    /\ pm.pc = "load"
    /\ LET data == LoadJson(pm.local_path)
       IN  pm' = IF data = BadJson THEN [pm EXCEPT !.pc = "return"]
                 ELSE [pm EXCEPT !.pc = "submit", !.todo = extract_assets(data)]
    /\ UNCHANGED <<task, fs, remote>>
    /\ UNCHANGED notPool

\* line 178: the self-reference guard
SelfReference(rel, local_path) == BaseName(rel) = BaseName(local_path)

DependentTaskForced(rel, local_path, url) ==
    NewTask(UrlJoin(DirName(url) \o SLASH, rel),
            safe_path_join(DirName(local_path), rel), TRUE, "queued")

\* lines 181-185: the fetch task of reference rel
DependentTask(rel, local_path, url) ==
    LET base_url == DirName(url) \o SLASH
        local_dir == DirName(local_path)
        target_url == UrlJoin(base_url, rel)
        target_local == safe_path_join(local_dir, rel)
    IN  NewTask(target_url, target_local, FALSE, "queued")

\* lines 177-185: one turn of the loop over the extracted references
PMSubmit ==
    /\ pm.pc = "submit"
    /\ pm.todo # {}
    /\ \E rel \in pm.todo :
          IF SelfReference(rel, pm.local_path)
          THEN /\ pm' = [pm EXCEPT !.todo = @ \ {rel}]
               /\ task' = task
          ELSE /\ task' = Append(task, DependentTask(rel, pm.local_path, pm.url))
               /\ pm' = [pm EXCEPT !.todo = @ \ {rel},
                                   !.futures = @ \cup {Len(task) + 1}]
    /\ UNCHANGED <<fs, remote>>
    /\ UNCHANGED notPool

\* a pool worker takes a queued task (at most MAX_WORKERS run at a time)
WorkerStart(t) ==
    /\ task[t].pc = "queued"
    /\ Cardinality({w \in DOMAIN task : task[w].pc \notin {"queued", "done"}}) < MAX_WORKERS
    /\ task' = [task EXCEPT ![t] = [@ EXCEPT !.pc = "makedirs"]]
    /\ UNCHANGED fs
    /\ UNCHANGED notFetch

AnyCompleted(futures) == TRUE
\* lines 187-191: the loop over as_completed(futures) ends when every future
\* has finished; what future.result() returns or raises is dropped
AllCompleted(futures) == \A f \in futures : task[f].pc = "done"

\* lines 187-191: as_completed has yielded every future
PMWait ==
    /\ pm.pc = "submit"
    /\ pm.todo = {}
    /\ AllCompleted(pm.futures)
    /\ pm' = [pm EXCEPT !.pc = "return"]
    /\ UNCHANGED <<task, fs, remote>>
    /\ UNCHANGED notPool

(***************************************************************************)
(* Spec: one call of download_file(url, local_filepath, force)             *)
(***************************************************************************)
PNG == <<".", "p", "n", "g">>

\* the destination and the URL of the single call
OneLocal == <<"m", "/", "t">> \o PNG
OneUrl == <<"u">>

\* the disks the call can start on: the destination absent or a complete
\* earlier copy, the temp sibling absent or a torn leftover of an earlier crash
StartDisks(local_filepath) ==
    LET tmp_path == TmpPath(local_filepath)
        torn == [content |-> <<OldChunk>>, open |-> {}]
        empty == [q \in {} |-> OldCopy]
    IN  {empty,
         Put(empty, local_filepath, OldCopy),
         Put(empty, tmp_path, torn),
         Put(Put(empty, local_filepath, OldCopy), tmp_path, torn)}

FetchInit ==
    /\ \E force \in BOOLEAN :
          task = [t \in {1} |-> NewTask(OneUrl, OneLocal, force, "makedirs")]
    /\ fs \in StartDisks(OneLocal)
    /\ remote = NoRemote
    /\ pm = NoCall
    /\ sanit = NoSanit
    /\ mn = NoMain
    /\ saved = NoSaved

FetchNext ==
    \/ \E t \in DOMAIN task : Makedirs(t)
    \/ \E t \in DOMAIN task : HeadProbe(t)
    \/ \E t \in DOMAIN task : Check(t)
    \/ \E t \in DOMAIN task : Get(t)
    \/ \E t \in DOMAIN task : Open(t)
    \/ \E t \in DOMAIN task : Write(t)
    \/ \E t \in DOMAIN task : ExistsTest(t)
    \/ \E t \in DOMAIN task : Remove(t)
    \/ \E t \in DOMAIN task : Rename(t)

Spec == FetchInit /\ [][FetchNext]_vars

\* a call that is scheduled keeps running until it returns
FairSpec == Spec /\ WF_vars(FetchNext)

(***************************************************************************)
(* PoolSpec: process_model(local_path, url, executor) on a descriptor that *)
(* the primary fetch has just written                                      *)
(***************************************************************************)
JSON == <<".", "j", "s", "o", "n">>

ModelUrl == STATIC_HOST \o <<"m", "/", "d">> \o JSON
ModelLocal == <<"m", "/", "d">> \o JSON

\* descriptors the server may serve
SampleDocs ==
    {JDict(<<JNum, JList(<<JStr(<<"t">> \o PNG), JStr(<<".", "/", "t">> \o PNG)>>)>>),
     JDict(<<JStr(<<"t">> \o PNG), JDict(<<JStr(<<".", ".", "/", "u">> \o PNG)>>)>>),
     JList(<<JStr(<<"d">> \o JSON), JStr(<<"n", ".", "t", "x", "t">>),
             JStr(<<"T", ".", "P", "N", "G">>)>>),
     BadJson}

PoolInit ==
    /\ task = << >>
    /\ \E doc \in SampleDocs : remote = [u \in {ModelUrl} |-> doc]
    /\ \E mirrored \in BOOLEAN :
          LET descriptor == [content |-> Body(ModelUrl), open |-> {}]
              dests == {safe_path_join(DirName(ModelLocal), rel) :
                           rel \in extract_assets(remote[ModelUrl])}
          IN  fs = [q \in {ModelLocal} \cup (IF mirrored THEN dests ELSE {}) |->
                       IF q = ModelLocal THEN descriptor ELSE OldCopy]
    /\ pm = [pc |-> "load", local_path |-> ModelLocal, url |-> ModelUrl,
             todo |-> {}, futures |-> {}]
    /\ sanit = NoSanit
    /\ mn = NoMain
    /\ saved = NoSaved

PoolNext ==
    \/ PMLoad
    \/ PMSubmit
    \/ PMWait
    \/ \E t \in DOMAIN task : WorkerStart(t)
    \/ FetchNext

PoolSpec == PoolInit /\ [][PoolNext]_vars

(***************************************************************************)
(* download_file as one step: what a whole call returns and leaves on the  *)
(* disk.  h is what the server answers to a HEAD of the URL at the time of *)
(* the call, were one sent; gets is the number of GETs the call issued.    *)
(* The steps in between are those of Spec and PoolSpec.                    *)
(***************************************************************************)
DownloadOutcomes(disk, url, local_filepath, force) ==
    LET local == NormPath(local_filepath)
        exists == local \in DOMAIN disk
        local_size == IF exists THEN Len(disk[local].content) ELSE 0
        whole == [content |-> Body(url), open |-> {}]
        Ret(result, gets, d, h) == [result |-> result, gets |-> gets, disk |-> d, head |-> h]
    IN  \* lines 74-81: the directory cannot be created
        (IF MakedirsCanFail(disk, local) THEN {Ret(FALSE, 0, disk, NoHead)} ELSE {})
        \cup UNION {
            IF CanSkip(force, exists, local_size, IF force THEN -1 ELSE ProbeSize(h))
            THEN \* lines 94-98
                 {Ret(TRUE, 0, disk, h)}
            ELSE \* lines 100-142: the first or the last attempt completes; the
                 \* first GET is answered 404; the last attempt fails, before
                 \* or after os.remove
                 {Ret(TRUE, k, Put(disk, local, whole), h) : k \in {1, MAX_RETRIES}}
                 \cup {Ret(FALSE, k, disk, h) : k \in {1, MAX_RETRIES}}
                 \cup (IF exists THEN {Ret(FALSE, MAX_RETRIES, Unlink(disk, local), h)}
                       ELSE {})
            : h \in HeadOutcomes}

\* a pool worker runs a queued task to its end
FetchWhole(t) ==
    /\ task[t].pc = "queued"
    /\ \E o \in DownloadOutcomes(fs, task[t].url, task[t].local, task[t].force) :
          /\ task' = [task EXCEPT ![t] =
                         [@ EXCEPT !.pc = "done", !.result = o.result,
                                   !.gets = o.gets, !.head = o.head]]
          /\ fs' = o.disk
    /\ UNCHANGED notFetch

(***************************************************************************)
(* main                                                                    *)
(*                                                                         *)
(* The manifest is the sequence of its model entries, in the order the     *)
(* loops of lines 236-240 visit them; an entry is [has_path, path].  The   *)
(* bootstrap script is [tag |-> "js", matched, json_name, version]:        *)
(* whether the pattern of line 206 matches, and its groups 2 and 3.        *)
(***************************************************************************)
INDEX_JS_URL == <<"h", "t", "t", "p", "s", ":", "/", "/", "l", "2", "d", ".", "s", "u", "/", "j", "s", "o", "n", "/", "i", "n", "d", "e", "x", ".", "j", "s">>
BASE_URL == <<"h", "t", "t", "p", "s", ":", "/", "/", "l", "2", "d", ".", "s", "u", "/", "j", "s", "o", "n", "/">>
TARGET_SUBDIR == <<"j", "s", "o", "n">>
FINAL_INDEX_JS_NAME == <<"i", "n", "d", "e", "x", ".", "j", "s">>

Digits == <<"1", "2", "3", "4">>

\* TEMP_INDEX_JS_NAME = f"index.temp.{int(time.time())}.js", one per run
TempName(run) == <<"i", "n", "d", "e", "x", ".", "t", "e", "m", "p", ".">> \o <<Digits[run]>> \o <<".", "j", "s">>

\* line 217: os.path.join(TARGET_SUBDIR, f"live2dMaster{version}.json")
MasterLocal(version) ==
    PathJoin(TARGET_SUBDIR, <<<<"l", "i", "v", "e", "2", "d", "M", "a", "s", "t", "e", "r">> \o version \o JSON>>)

\* lines 249-253: the part of the entry's URL after the host
HostRel(url) ==
    IF StartsWith(url, STATIC_HOST) THEN SubSeq(url, Len(STATIC_HOST) + 1, Len(url))
    ELSE Last(Split(url, <<":", "/", "/">>))

\* lines 259-260: the entry after its primary fetch returned ok
RewrittenAlways(entry, rel, ok) == [entry EXCEPT !.path = ReplaceChar(rel, "\\", "/")]
RewrittenNever(entry, rel, ok) == entry
Rewritten(entry, rel, ok) ==
    IF ok THEN [entry EXCEPT !.path = ReplaceChar(rel, "\\", "/")] ELSE entry

\* lines 235-240: the entries that carry "path"
ModelsOf(entries) == {i \in 1..Len(entries) : entries[i].has_path}

\* the locals of main when run number run starts
StartMain(run) ==
    [pc |-> "boot", run |-> run, how |-> "running", js |-> BadJson,
     master_local |-> << >>, master_data |-> << >>, todo |-> {}, cur |-> 0,
     outcome |-> << >>, where |-> << >>,
     primary |-> [head |-> NoHead, gets |-> 0, result |-> FALSE]]

Exit(how) == [mn EXCEPT !.pc = "exit", !.how = how]

\* lines 194-200: the bootstrap script is fetched, forced, to the temp name
MainBoot ==
    /\ mn.pc = "boot"
    /\ \E o \in DownloadOutcomes(fs, INDEX_JS_URL, TempName(mn.run), TRUE) :
          /\ fs' = o.disk
          /\ mn' = IF o.result THEN [mn EXCEPT !.pc = "match"] ELSE Exit("no bootstrap")
    /\ UNCHANGED <<task, remote, pm, sanit, saved>>

\* lines 202-217: the script is read and searched for the manifest reference
MainMatch ==
    /\ mn.pc = "match"
    /\ LET js_txt == LoadJson(TempName(mn.run))
       IN  IF js_txt.tag = "js" /\ js_txt.matched
           THEN /\ mn' = [mn EXCEPT !.pc = "master", !.js = js_txt,
                                    !.master_local = MasterLocal(js_txt.version)]
                /\ fs' = fs
           ELSE /\ mn' = Exit("no match")
                /\ fs' = Unlink(fs, TempName(mn.run))
    /\ UNCHANGED <<task, remote, pm, sanit, saved>>

\* lines 216-222: the manifest is fetched, forced, under its versioned name
MainMaster ==
    /\ mn.pc = "master"
    /\ LET master_url == UrlJoin(BASE_URL, mn.js.json_name)
       IN  \E o \in DownloadOutcomes(fs, master_url, mn.master_local, TRUE) :
              IF o.result
              THEN /\ fs' = o.disk
                   /\ saved' = [q \in DOMAIN saved \ {mn.master_local} |-> saved[q]]
                   /\ mn' = [mn EXCEPT !.pc = "publish"]
              ELSE /\ fs' = Unlink(o.disk, TempName(mn.run))
                   /\ saved' = saved
                   /\ mn' = Exit("no manifest")
    /\ UNCHANGED <<task, remote, pm, sanit>>

\* lines 224-230: the rewritten bootstrap script is published
MainPublish ==
    /\ mn.pc = "publish"
    /\ saved' = Put(saved, PathJoin(TARGET_SUBDIR, <<FINAL_INDEX_JS_NAME>>),
                    [tag |-> "js", matched |-> FALSE,
                     json_name |-> mn.master_local, version |-> mn.js.version])
    /\ mn' = [mn EXCEPT !.pc = "parse"]
    /\ UNCHANGED <<task, fs, remote, pm, sanit>>

\* lines 232-245 and 281-284: the manifest is parsed and its entries listed; a
\* manifest that does not parse raises out of main, through the finally clause
MainParse ==
    /\ mn.pc = "parse"
    /\ LET master_data == LoadJson(mn.master_local)
       IN  IF master_data.tag = "manifest"
           THEN /\ mn' = [mn EXCEPT !.pc = "loop",
                                    !.master_data = master_data.entries,
                                    !.todo = ModelsOf(master_data.entries)]
                /\ fs' = fs
           ELSE /\ mn' = Exit("raised")
                /\ fs' = Unlink(fs, TempName(mn.run))
    /\ UNCHANGED <<task, remote, pm, sanit, saved>>

\* the entry the loop of line 247 visits next
NextModel == CHOOSE i \in mn.todo : \A j \in mn.todo : i <= j

\* lines 248-254: the URL of entry m, its part after the host, and the local
\* path of its primary descriptor
PrimaryCall(m) ==
    [url |-> m.path, rel |-> HostRel(m.path),
     local |-> safe_path_join(<< >>, HostRel(m.path))]

\* lines 247-261: the primary fetch of the next entry; on success its path is
\* rewritten and process_model is called
MainLoop ==
    /\ mn.pc = "loop"
    /\ mn.todo # {}
    /\ LET i == NextModel
           m == mn.master_data[i]
           url == PrimaryCall(m).url
           rel == PrimaryCall(m).rel
           local == PrimaryCall(m).local
           seen == [mn EXCEPT !.todo = @ \ {i}, !.cur = i]
       IN  \E o \in DownloadOutcomes(fs, url, local, FALSE) :
              /\ fs' = o.disk
              /\ mn' = [seen EXCEPT
                           !.pc = IF o.result THEN "deps" ELSE "loop",
                           !.master_data[i] = Rewritten(m, rel, o.result),
                           !.outcome = Put(mn.outcome, i, o.result),
                           !.where = Put(mn.where, i, local),
                           !.primary = [head |-> o.head, gets |-> o.gets,
                                        result |-> o.result]]
              /\ pm' = IF o.result
                       THEN [pc |-> "load", local_path |-> local, url |-> url,
                             todo |-> {}, futures |-> {}]
                       ELSE pm
    /\ UNCHANGED <<task, remote, sanit, saved>>

\* line 261: process_model has returned; its futures are dropped
MainDeps ==
    /\ mn.pc = "deps"
    /\ pm.pc = "return"
    /\ mn' = [mn EXCEPT !.pc = "loop"]
    /\ pm' = NoCall
    /\ task' = << >>
    /\ UNCHANGED <<fs, remote, sanit, saved>>

\* lines 263-268: after the last entry the manifest is written back
MainPersist ==
    /\ mn.pc = "loop"
    /\ mn.todo = {}
    /\ saved' = Put(saved, mn.master_local,
                    [tag |-> "manifest", entries |-> mn.master_data])
    /\ mn' = [mn EXCEPT !.pc = "shutdown"]
    /\ UNCHANGED <<task, fs, remote, pm, sanit>>

\* lines 278-284: the pool is shut down and the temp script removed
MainShutdown ==
    /\ mn.pc = "shutdown"
    /\ fs' = Unlink(fs, TempName(mn.run))
    /\ mn' = Exit("completed")
    /\ UNCHANGED <<task, remote, pm, sanit, saved>>

\* the mirror is run again, on the disk the run before left
Rerun ==
    /\ mn.pc = "exit"
    /\ mn.run < MaxRuns
    /\ mn' = StartMain(mn.run + 1)
    /\ UNCHANGED <<task, fs, remote, pm, sanit, saved>>

(***************************************************************************)
(* MirrorSpec: main, run MaxRuns times against one unchanged server, from  *)
(* an empty disk.  Calls of download_file are single steps.                *)
(***************************************************************************)
\* the manifest name and the version the bootstrap script refers to
JsonName == <<"l", "i", "v", "e", "2", "d", "M", "a", "s", "t", "e", "r", ".", "j", "s", "o", "n">>
Version == <<"7">>
MasterUrl == UrlJoin(BASE_URL, JsonName)

\* model descriptors of the server: one on the static host with a dependent
\* texture, one whose path holds a character the sanitizer replaces, one on
\* another host that does not parse
ReplacedUrl == STATIC_HOST \o <<"a", ":", "b", "/", "d">> \o JSON
OtherHostUrl == <<"h", "t", "t", "p", "s", ":", "/", "/", "o", ".", "h", "/", "x">> \o JSON
Descriptors ==
    [u \in {ModelUrl, ReplacedUrl, OtherHostUrl} |->
        IF u = ModelUrl THEN JList(<<JNum, JStr(<<"t">> \o PNG)>>)
        ELSE IF u = ReplacedUrl THEN JList(<<JNum>>)
        ELSE BadJson]

\* entries of the manifest: one per descriptor, and one without "path"
SampleEntries ==
    {[has_path |-> TRUE, path |-> u] : u \in DOMAIN Descriptors}
    \cup {[has_path |-> FALSE, path |-> << >>]}

\* what the server serves under the manifest URL
SampleManifests ==
    {[tag |-> "manifest", entries |-> e] :
        e \in UNION {[1..n -> SampleEntries] : n \in 1..MaxModels}}
    \cup {BadJson}

\* what the server serves under the bootstrap URL
SampleScripts ==
    {[tag |-> "js", matched |-> b, json_name |-> JsonName, version |-> Version] :
        b \in BOOLEAN}

MirrorInit ==
    /\ \E js \in SampleScripts, manifest \in SampleManifests :
          remote = [u \in DOMAIN Descriptors \cup {INDEX_JS_URL, MasterUrl} |->
                       IF u = INDEX_JS_URL THEN js
                       ELSE IF u = MasterUrl THEN manifest
                       ELSE Descriptors[u]]
    /\ fs = [q \in {} |-> OldCopy]
    /\ task = << >>
    /\ pm = NoCall
    /\ sanit = NoSanit
    /\ saved = NoSaved
    /\ mn = StartMain(1)

MirrorNext ==
    \/ MainBoot
    \/ MainMatch
    \/ MainMaster
    \/ MainPublish
    \/ MainParse
    \/ MainLoop
    \/ MainDeps
    \/ MainPersist
    \/ MainShutdown
    \/ Rerun
    \/ PMLoad
    \/ PMSubmit
    \/ PMWait
    \/ \E t \in DOMAIN task : FetchWhole(t)

MirrorSpec == MirrorInit /\ [][MirrorNext]_vars

(***************************************************************************)
(* SigintSpec: one run of main in which the operator may interrupt         *)
(* (KeyboardInterrupt in the main thread) between any two steps.  The      *)
(* write-back of the manifest is two steps, open(master_local, "w") and    *)
(* json.dump; a pool task is started by a worker and then runs to its end. *)
(***************************************************************************)
\* a descriptor with two dependent files
TwoRefs == JList(<<JStr(<<"t">> \o PNG), JStr(<<"u">> \o PNG)>>)

\* the manifests of one entry, and the one that does not parse
SigintManifests ==
    {m \in SampleManifests : IF m = BadJson THEN TRUE ELSE Len(m.entries) = 1}

SigintInit ==
    /\ \E js \in SampleScripts, manifest \in SigintManifests :
          remote = [u \in DOMAIN Descriptors \cup {INDEX_JS_URL, MasterUrl} |->
                       IF u = INDEX_JS_URL THEN js
                       ELSE IF u = MasterUrl THEN manifest
                       ELSE IF u = ModelUrl THEN TwoRefs
                       ELSE Descriptors[u]]
    /\ fs = [q \in {} |-> OldCopy]
    /\ task = << >>
    /\ pm = NoCall
    /\ sanit = NoSanit
    /\ saved = NoSaved
    /\ mn = StartMain(1)

\* a started task runs the rest of download_file
FetchRest(t) ==
    /\ task[t].pc = "makedirs"
    /\ \E o \in DownloadOutcomes(fs, task[t].url, task[t].local, task[t].force) :
          /\ task' = [task EXCEPT ![t] =
                         [@ EXCEPT !.pc = "done", !.result = o.result,
                                   !.gets = o.gets, !.head = o.head]]
          /\ fs' = o.disk
    /\ UNCHANGED notFetch

\* line 263: open(master_local, "w") truncates the manifest
PersistOpen ==
    /\ mn.pc = "loop"
    /\ mn.todo = {}
    /\ saved' = Put(saved, mn.master_local, [tag |-> "partial", entries |-> << >>])
    /\ mn' = [mn EXCEPT !.pc = "dump"]
    /\ UNCHANGED <<task, fs, remote, pm, sanit>>

\* lines 264-268: json.dump writes the document and the file is closed
PersistDump ==
    /\ mn.pc = "dump"
    /\ saved' = Put(saved, mn.master_local,
                    [tag |-> "manifest", entries |-> mn.master_data])
    /\ mn' = [mn EXCEPT !.pc = "shutdown"]
    /\ UNCHANGED <<task, fs, remote, pm, sanit>>

\* the interrupt arrives during line 199, before the try of line 202: the
\* bootstrap fetch is cut before or after its os.rename, and KeyboardInterrupt
\* leaves main
SigintBoot ==
    /\ mn.pc = "boot"
    /\ \E renamed \in BOOLEAN :
          fs' = IF renamed
                THEN Put(fs, TempName(mn.run),
                         [content |-> Body(INDEX_JS_URL), open |-> {}])
                ELSE fs
    /\ mn' = Exit("interrupt raised")
    /\ UNCHANGED <<task, remote, pm, sanit, saved>>

\* the interrupt arrives in lines 202-245: the finally clause of lines 281-284
\* removes the temp script and KeyboardInterrupt leaves main; a manifest fetch
\* that is cut may have removed the manifest already (line 129)
SigintOuter ==
    /\ mn.pc \in {"match", "master", "publish", "parse"}
    /\ \E removed \in BOOLEAN :
          fs' = Unlink(IF removed /\ mn.pc = "master"
                       THEN Unlink(fs, mn.master_local) ELSE fs,
                       TempName(mn.run))
    /\ mn' = Exit("interrupt raised")
    /\ UNCHANGED <<task, remote, pm, sanit, saved>>

\* the interrupt arrives in lines 246-268, process_model included:
\* KeyboardInterrupt unwinds to the except clause of line 270
SigintInner ==
    /\ mn.pc \in {"loop", "deps", "dump", "shutdown"}
    /\ mn' = [mn EXCEPT !.pc = "handler"]
    /\ pm' = NoCall
    /\ UNCHANGED <<task, fs, remote, sanit, saved>>

\* line 274: executor.shutdown(wait=False, cancel_futures=True)
CancelNothing(tasks) == tasks
Cancel(tasks) ==
    [t \in DOMAIN tasks |->
        IF tasks[t].pc = "queued" THEN [tasks[t] EXCEPT !.pc = "cancelled"]
        ELSE tasks[t]]

\* lines 270-277: the pending futures are cancelled, the temp script is
\* removed and sys.exit(0) is called
MainCancel ==
    /\ mn.pc = "handler"
    /\ task' = Cancel(task)
    /\ fs' = Unlink(fs, TempName(mn.run))
    /\ mn' = [mn EXCEPT !.pc = "join", !.how = "interrupted"]
    /\ UNCHANGED <<remote, pm, sanit, saved>>

\* lines 278-284: executor.shutdown(wait=True) returns when no task is running
MainJoin ==
    /\ mn.pc = "join"
    /\ \A t \in DOMAIN task : task[t].pc \in {"cancelled", "done"}
    /\ fs' = Unlink(fs, TempName(mn.run))
    /\ mn' = [mn EXCEPT !.pc = "exit"]
    /\ UNCHANGED <<task, remote, pm, sanit, saved>>

SigintNext ==
    \/ MainBoot
    \/ MainMatch
    \/ MainMaster
    \/ MainPublish
    \/ MainParse
    \/ MainLoop
    \/ MainDeps
    \/ PersistOpen
    \/ PersistDump
    \/ MainShutdown
    \/ PMLoad
    \/ PMSubmit
    \/ PMWait
    \/ \E t \in DOMAIN task : WorkerStart(t)
    \/ \E t \in DOMAIN task : FetchRest(t)
    \/ SigintBoot
    \/ SigintOuter
    \/ SigintInner
    \/ MainCancel
    \/ MainJoin

SigintSpec == SigintInit /\ [][SigintNext]_vars

(***************************************************************************)
(* LegacySpec: process_live2d_master_json of src/1model.py                 *)
(*                                                                         *)
(* The manifest is the sequence of its live2d items, in the order of the   *)
(* loops of lines 162-164; an item is [char, fields]: the charName of its  *)
(* character, if any, and the function from its keys to their values.      *)
(* download_file and process_model3_json of src/1model.py are single       *)
(* steps: they return, or an exception they do not catch leaves the        *)
(* function.                                                               *)
(***************************************************************************)
\* the keys added at lines 166-167
Transient == {"_charName", "_costumeName"}

\* f with key k set to value v
SetKey(f, k, v) == [x \in DOMAIN f \cup {k} |-> IF x = k THEN v ELSE f[x]]

\* f without the keys of ks
DelKeys(f, ks) == [x \in DOMAIN f \ ks |-> f[x]]

\* lines 165-168: an item with "path" gets the two display fields
Annotated(item) ==
    IF "path" \in DOMAIN item.fields
    THEN [item EXCEPT !.fields =
             SetKey(SetKey(@, "_charName",
                           IF item.char.has THEN item.char.name ELSE "unknown"),
                    "_costumeName",
                    IF "costumeName" \in DOMAIN item.fields
                    THEN item.fields["costumeName"] ELSE "default")]
    ELSE item

StrippedNot(item) == item
\* lines 197-199: the two display fields are deleted from an item of path_list
Stripped(item) ==
    IF "path" \in DOMAIN item.fields
    THEN [item EXCEPT !.fields = DelKeys(@, Transient)]
    ELSE item

RECURSIVE LStripSlash(_)
\* s.lstrip("/")
LStripSlash(s) == IF Len(s) > 0 /\ Head(s) = "/" THEN LStripSlash(Tail(s)) ELSE s

\* lines 176-182 of src/1model.py: the part of the URL after the host
LegacyRel(full_url) ==
    ReplaceChar(IF StartsWith(full_url, STATIC_HOST)
                THEN SubSeq(full_url, Len(STATIC_HOST) + 1, Len(full_url))
                ELSE LStripSlash(UrlPath(full_url)),
                "\\", "/")

\* line 183: os.path.join(*relative_path.split("/"))
LegacyLocal(relative_path) ==
    LET parts == Split(relative_path, SLASH)
    IN  PathJoin(Head(parts), Tail(parts))

\* the items of the manifests the server may serve
LegacyItems ==
    LET model == [k \in {"path", "costumeName", "id"} |->
                     IF k = "path" THEN ModelUrl ELSE IF k = "id" THEN "1" ELSE "s"]
        other == [k \in {"path", "id"} |-> IF k = "path" THEN OtherHostUrl ELSE "2"]
        plain == [k \in {"id"} |-> "3"]
    IN  [char : {[has |-> TRUE, name |-> "c"], [has |-> FALSE, name |-> ""]},
         fields : {model, other, plain}]

\* live2dMaster<version>.json under TARGET_SUBDIR, and its web version backup
MasterJsonPath == MasterLocal(Version)
WebversionBackupPath ==
    PathJoin(TARGET_SUBDIR,
             <<<<"l", "i", "v", "e", "2", "d", "M", "a", "s", "t", "e", "r">> \o Version
               \o <<"w", "e", "b", "v", "e", "r", "s", "i", "o", "n">> \o JSON>>)

LegacyInit ==
    /\ \E doc \in {[tag |-> "manifest", entries |-> e] :
                      e \in UNION {[1..n -> LegacyItems] : n \in 1..MaxModels}}
                  \cup {BadJson} :
          remote = [u \in {MasterUrl} |-> doc]
    /\ fs = [q \in {MasterJsonPath} |-> [content |-> Body(MasterUrl), open |-> {}]]
    /\ task = << >>
    /\ pm = NoCall
    /\ sanit = NoSanit
    /\ saved = NoSaved
    /\ mn = [pc |-> "backup", how |-> "running", data |-> << >>, path_list |-> << >>,
             i |-> 1, downloaded |-> {}]

\* lines 144-152: shutil.copyfile to the backup; a failure returns
LegacyBackup ==
    /\ mn.pc = "backup"
    /\ \E ok \in BOOLEAN :
          IF ok
          THEN /\ fs' = Put(fs, WebversionBackupPath, fs[MasterJsonPath])
               /\ mn' = [mn EXCEPT !.pc = "load"]
          ELSE /\ fs' = fs
               /\ mn' = [mn EXCEPT !.pc = "return", !.how = "no backup"]
    /\ UNCHANGED <<task, remote, pm, sanit, saved>>

\* lines 154-168: the manifest is parsed, a failure returns; the items with
\* "path" are annotated and listed
LegacyLoad ==
    /\ mn.pc = "load"
    /\ LET data == LoadJson(MasterJsonPath)
       IN  mn' = IF data = BadJson
                 THEN [mn EXCEPT !.pc = "return", !.how = "no parse"]
                 ELSE [mn EXCEPT
                          !.pc = "models",
                          !.data = [k \in 1..Len(data.entries) |->
                                       Annotated(data.entries[k])],
                          !.path_list = SelectSeq([k \in 1..Len(data.entries) |-> k],
                                           LAMBDA k : "path" \in DOMAIN data.entries[k].fields)]
    /\ UNCHANGED <<task, fs, remote, pm, sanit, saved>>

\* lines 173-195: the next item of path_list: its primary fetch, which
\* writes the destination in place (lines 57-59), the rewrite of its path and
\* process_model3_json; an exception that download_file or
\* process_model3_json does not catch leaves the function
LegacyModel ==
    /\ mn.pc = "models"
    /\ mn.i <= Len(mn.path_list)
    /\ LET k == mn.path_list[mn.i]
           full_url == mn.data[k].fields["path"]
           relative_path == LegacyRel(full_url)
           local_model_path == LegacyLocal(relative_path)
       IN  \E outcome \in {"ok", "failed", "raised"} :
              IF outcome = "ok"
              THEN /\ fs' = Put(fs, local_model_path,
                                [content |-> Body(full_url), open |-> {}])
                   /\ \E raised \in BOOLEAN :
                         mn' = [mn EXCEPT
                                   !.data[k].fields["path"] = relative_path,
                                   !.downloaded = @ \cup {k},
                                   !.i = @ + 1,
                                   !.pc = IF raised THEN "return" ELSE "models",
                                   !.how = IF raised THEN "raised" ELSE @]
              ELSE /\ fs' \in {fs, Put(fs, local_model_path,
                                        [content |-> SubSeq(Body(full_url), 1, 1),
                                         open |-> {}])}
                   /\ mn' = IF outcome = "failed" THEN [mn EXCEPT !.i = @ + 1]
                            ELSE [mn EXCEPT !.pc = "return", !.how = "raised"]
    /\ UNCHANGED <<task, remote, pm, sanit, saved>>

\* lines 197-199: the display fields are deleted
LegacyStrip ==
    /\ mn.pc = "models"
    /\ mn.i > Len(mn.path_list)
    /\ mn' = [mn EXCEPT !.pc = "write",
                        !.data = [k \in 1..Len(mn.data) |-> Stripped(mn.data[k])]]
    /\ UNCHANGED <<task, fs, remote, pm, sanit, saved>>

\* lines 203-208: the manifest is written back; an IOError is reported
LegacyWrite ==
    /\ mn.pc = "write"
    /\ \E ok \in BOOLEAN :
          /\ saved' = IF ok
                      THEN Put(saved, MasterJsonPath,
                               [tag |-> "manifest", entries |-> mn.data])
                      ELSE saved
          /\ mn' = [mn EXCEPT !.pc = "return",
                              !.how = IF ok THEN "written" ELSE "no write"]
    /\ UNCHANGED <<task, fs, remote, pm, sanit>>

LegacyNext ==
    \/ LegacyBackup
    \/ LegacyLoad
    \/ LegacyModel
    \/ LegacyStrip
    \/ LegacyWrite

LegacySpec == LegacyInit /\ [][LegacyNext]_vars

(***************************************************************************)
(* AudioSpec: download_file and process_audio of src/2audio.py             *)
(*                                                                         *)
(* A descriptor is [tag |-> "model3", motions]: the motions of all groups  *)
(* in the order of the loops of lines 80-81, a motion being [has, audio],  *)
(* whether it carries "Audio" and its value.  task holds the calls of      *)
(* download_file that process_audio has made, the last one being the one   *)
(* in progress.                                                            *)
(***************************************************************************)
\* line 12 of src/2audio.py: MAX_RETRIES, which no line of the file reads
AUDIO_MAX_RETRIES == 3

MODEL3 == <<".", "m", "o", "d", "e", "l", "3">> \o JSON

\* a descriptor found under LIVE2D_DIR (lines 121-124), mirrored from Model3Url
Model3Path == <<"m", "/", "d">> \o MODEL3
Model3Url == STATIC_HOST \o Model3Path

\* line 64: model3_path.replace(".model3.json", version + "webversion.model3.json"),
\* for a path that ends with its only occurrence of ".model3.json" (line 123)
AudioBackupPath(model3_path, version) ==
    SubSeq(model3_path, 1, Len(model3_path) - Len(MODEL3))
        \o version \o <<"w", "e", "b", "v", "e", "r", "s", "i", "o", "n">> \o MODEL3

\* lines 85-87: the destination of an audio URL
LocalAudioPath(model3_path, audio_url) ==
    LET audio_filename == BaseName(audio_url)
        audio_dir == PathJoin(DirName(model3_path), <<<<"a", "u", "d", "i", "o">>>>)
    IN  ReplaceChar(PathJoin(audio_dir, <<audio_filename>>), "\\", "/")

\* line 92: os.path.relpath(local_audio_path, os.path.dirname(model3_path)),
\* for a destination beneath that directory
AudioRel(local_audio_path, start) ==
    ReplaceChar(NormPath(SubSeq(local_audio_path, Len(start) + 2, Len(local_audio_path))),
                "\\", "/")

\* open(local_filepath, "wb") cannot succeed on a name that denotes a directory
IsDirectoryName(path) == BaseName(path) \in {<< >>, <<".">>, <<".", ".">>}

\* the audio URLs of the descriptors: a file, and a URL without a file name
AudioUrls ==
    {<<"h", "t", "t", "p", "s", ":", "/", "/", "o", ".", "h", "/", "a",
       ".", "m", "p", "3">>,
     <<"h", "t", "t", "p", "s", ":", "/", "/", "o", ".", "h", "/", "v", "/">>}

AudioMotions ==
    [has : {TRUE}, audio : AudioUrls] \cup {[has |-> FALSE, audio |-> << >>]}

\* the descriptors process_audio may find on disk
AudioDocs ==
    {[tag |-> "model3", motions |-> m] :
        m \in UNION {[1..n -> AudioMotions] : n \in 0..MaxModels}}
    \cup {BadJson}

\* a call of download_file(url, local_filepath) of src/2audio.py
AudioCall(url, local_filepath) ==
    [url |-> url, local |-> local_filepath, pc |-> "makedirs", gets |-> 0,
     resp |-> 0, off |-> 0, result |-> FALSE, why |-> "none"]

\* lines 36-41: the except clauses print and return False
AudioFail(r, why) == [r EXCEPT !.pc = "done", !.result = FALSE, !.why = why]

\* the call in progress
Cur == Len(task)

AudioInit ==
    /\ \E doc \in AudioDocs : remote = [u \in {Model3Url} |-> doc]
    /\ fs = [q \in {Model3Path} |-> [content |-> Body(Model3Url), open |-> {}]]
    /\ task = << >>
    /\ pm = NoCall
    /\ sanit = NoSanit
    /\ saved = NoSaved
    /\ mn = [pc |-> "backup", how |-> "running", motions |-> << >>, i |-> 1,
             audio_found |-> FALSE]

\* lines 64-65 and 108-109: the descriptor is copied; a failure is reported
AudioBackup ==
    /\ mn.pc = "backup"
    /\ \E ok \in BOOLEAN :
          IF ok
          THEN /\ fs' = Put(fs, AudioBackupPath(Model3Path, Version), fs[Model3Path])
               /\ mn' = [mn EXCEPT !.pc = "load"]
          ELSE /\ fs' = fs
               /\ mn' = [mn EXCEPT !.pc = "return", !.how = "failed"]
    /\ UNCHANGED <<task, remote, pm, sanit, saved>>

\* lines 69-76: the descriptor is parsed; without motions the function returns
AudioLoad ==
    /\ mn.pc = "load"
    /\ LET data == LoadJson(Model3Path)
       IN  mn' = IF data = BadJson
                 THEN [mn EXCEPT !.pc = "return", !.how = "failed"]
                 ELSE IF Len(data.motions) = 0
                 THEN [mn EXCEPT !.pc = "return", !.how = "no motions"]
                 ELSE [mn EXCEPT !.pc = "motions", !.motions = data.motions]
    /\ UNCHANGED <<task, fs, remote, pm, sanit, saved>>

\* lines 80-90: the next motion; one with "Audio" starts a call of download_file
AudioMotion ==
    /\ mn.pc = "motions"
    /\ mn.i <= Len(mn.motions)
    /\ LET motion == mn.motions[mn.i]
       IN  IF motion.has
           THEN /\ task' = Append(task, AudioCall(motion.audio,
                                                  LocalAudioPath(Model3Path, motion.audio)))
                /\ mn' = [mn EXCEPT !.pc = "download"]
           ELSE /\ task' = task
                /\ mn' = [mn EXCEPT !.i = @ + 1]
    /\ UNCHANGED <<fs, remote, pm, sanit, saved>>

\* lines 24-26 and 39-41: os.makedirs; its OSError is the IOError of line 39
AudioMakedirs ==
    /\ mn.pc = "download"
    /\ task[Cur].pc = "makedirs"
    /\ \E ok \in (IF MakedirsCanFail(fs, task[Cur].local) THEN BOOLEAN ELSE {TRUE}) :
          task' = [task EXCEPT ![Cur] =
                      IF ok THEN [@ EXCEPT !.pc = "get"] ELSE AudioFail(@, "io")]
    /\ UNCHANGED <<fs, remote, pm, sanit, mn, saved>>

\* lines 29 and 36-38: the single session.get of the call; an exception
\* returns False
AudioGet ==
    /\ mn.pc = "download"
    /\ task[Cur].pc = "get"
    /\ \E status \in GetOutcomes :
          task' = [task EXCEPT ![Cur] =
                      IF status = 0
                      THEN AudioFail([@ EXCEPT !.gets = @ + 1], "request")
                      ELSE [@ EXCEPT !.gets = @ + 1, !.resp = status, !.pc = "status"]]
    /\ UNCHANGED <<fs, remote, pm, sanit, mn, saved>>

\* lines 30 and 36-38: raise_for_status; the HTTPError returns False
AudioStatus ==
    /\ mn.pc = "download"
    /\ task[Cur].pc = "status"
    /\ task' = [task EXCEPT ![Cur] =
                   IF RaisesForStatus(@.resp) THEN AudioFail(@, "http")
                   ELSE [@ EXCEPT !.pc = "open"]]
    /\ UNCHANGED <<fs, remote, pm, sanit, mn, saved>>

\* lines 31 and 39-41: the destination is opened in place and truncated
AudioOpen ==
    /\ mn.pc = "download"
    /\ task[Cur].pc = "open"
    /\ \E ok \in (IF IsDirectoryName(task[Cur].local) THEN {FALSE} ELSE BOOLEAN) :
          IF ok
          THEN /\ fs' = Put(fs, task[Cur].local, [content |-> << >>, open |-> {Cur}])
               /\ task' = [task EXCEPT ![Cur] = [@ EXCEPT !.pc = "write", !.off = 0]]
          ELSE /\ fs' = fs
               /\ task' = [task EXCEPT ![Cur] = AudioFail(@, "io")]
    /\ UNCHANGED <<remote, pm, sanit, mn, saved>>

\* lines 32-35: the next chunk is written, the last one closes the file and
\* returns True; a broken stream or a failed write returns False
AudioWrite ==
    /\ mn.pc = "download"
    /\ task[Cur].pc = "write"
    /\ LET r == task[Cur]
       IN  \E outcome \in {"ok", "request", "io"} :
              IF outcome = "ok"
              THEN LET written == WriteOpen(fs, Cur, r.off, r.url)
                   IN  IF r.off + 1 < BodyLen
                       THEN /\ fs' = written
                            /\ task' = [task EXCEPT ![Cur] = [r EXCEPT !.off = @ + 1]]
                       ELSE /\ fs' = CloseOpen(written, Cur)
                            /\ task' = [task EXCEPT ![Cur] =
                                           [r EXCEPT !.pc = "done", !.result = TRUE]]
              ELSE /\ fs' = CloseOpen(fs, Cur)
                   /\ task' = [task EXCEPT ![Cur] = AudioFail(r, outcome)]
    /\ UNCHANGED <<remote, pm, sanit, mn, saved>>

\* lines 90-96: the call has returned; on True the motion's Audio is rewritten
AudioResult ==
    /\ mn.pc = "download"
    /\ task[Cur].pc = "done"
    /\ mn' = IF task[Cur].result
             THEN [mn EXCEPT !.pc = "motions",
                             !.motions[mn.i].audio =
                                 AudioRel(task[Cur].local, DirName(Model3Path)),
                             !.audio_found = TRUE,
                             !.i = @ + 1]
             ELSE [mn EXCEPT !.pc = "motions", !.i = @ + 1]
    /\ UNCHANGED <<task, fs, remote, pm, sanit, saved>>

\* lines 98-109: without a fetched audio the function returns; otherwise the
\* descriptor is written back, and a failure is reported
AudioPersist ==
    /\ mn.pc = "motions"
    /\ mn.i > Len(mn.motions)
    /\ IF ~mn.audio_found
       THEN /\ saved' = saved
            /\ mn' = [mn EXCEPT !.pc = "return", !.how = "no audio"]
       ELSE \E ok \in BOOLEAN :
               /\ saved' = IF ok
                           THEN Put(saved, Model3Path,
                                    [tag |-> "model3", motions |-> mn.motions])
                           ELSE saved
               /\ mn' = [mn EXCEPT !.pc = "return",
                                   !.how = IF ok THEN "written" ELSE "failed"]
    /\ UNCHANGED <<task, fs, remote, pm, sanit>>

AudioNext ==
    \/ AudioBackup
    \/ AudioLoad
    \/ AudioMotion
    \/ AudioMakedirs
    \/ AudioGet
    \/ AudioStatus
    \/ AudioOpen
    \/ AudioWrite
    \/ AudioResult
    \/ AudioPersist

AudioSpec == AudioInit /\ [][AudioNext]_vars

(***************************************************************************)
(* Claims about the Fetcher                                                *)
(***************************************************************************)
\* the file holds a whole body: an earlier copy, or the body of some URL
CompleteFile(file) ==
    \/ file.content = OldCopy.content
    \/ \E t \in DOMAIN task : file.content = Body(task[t].url)
    \/ \E u \in DOMAIN remote : file.content = Body(u)

\* the final destinations of the calls (never a ".tmp" sibling)
Destinations == {task[t].local : t \in DOMAIN task}

\* C1: in every reachable state of process_model and its pool workers, a
\* file present at the final destination of a fetch holds a whole body, never
\* a partially written one.
C1_FinalNeverPartial ==
    \A p \in Destinations : Exists(p) => CompleteFile(fs[p])

\* C2: once a complete file exists at the destination, every step of the
\* fetch leaves a complete file there (the old content or the new), so that
\* a crash after any step finds one.
C2_ReplaceIsAtomic ==
    [][\A t \in DOMAIN task :
          (Exists(task[t].local) /\ CompleteFile(fs[task[t].local]))
              => (Exists(task[t].local) /\ CompleteFile(fs[task[t].local]))']_vars

\* C3: a call whose first GET is answered 404 has changed no file up to and
\* including that GET, and that GET ends it: it returns failure, has slept
\* for no backoff and issues no second GET.
C3_NotFoundFailsAtOnce ==
    [][\A t \in DOMAIN task :
          (/\ task'[t] # task[t]
           /\ task'[t].gets <= 1
           /\ (task'[t].gets = 1 => task'[t].resp = 404))
          => /\ fs' = fs
             /\ task'[t].gets = 1 =>
                   /\ task'[t].pc = "done"
                   /\ task'[t].result = FALSE
                   /\ task'[t].sleeps = << >>]_vars

\* C3 witness: the call returned failure after one GET answered 404
C3_Witness ==
    \E t \in DOMAIN task :
        /\ task[t].pc = "done" /\ task[t].result = FALSE
        /\ task[t].gets = 1 /\ task[t].resp = 404

\* C4: after a GET answered with any status in 400..499 the call has
\* returned failure; it makes no further attempt.
C4_ClientErrorEndsCall ==
    \A t \in DOMAIN task :
        (400 <= task[t].resp /\ task[t].resp <= 499)
            => (task[t].pc = "done" /\ task[t].result = FALSE)

\* the backoff schedule so far: the k-th sleep lasts RETRY_DELAY * k
LinearBackoff(sleeps) == \A k \in 1..Len(sleeps) : sleeps[k] = RETRY_DELAY * k

RetryBudgetHolds ==
    \A t \in DOMAIN task :
        LET r == task[t]
        IN  /\ r.gets <= MAX_RETRIES
            /\ LinearBackoff(r.sleeps)
            \* one sleep between two consecutive attempts, none after the last
            /\ Len(r.sleeps) = (IF r.pc = "get" THEN r.gets
                                ELSE IF r.gets = 0 THEN 0 ELSE r.gets - 1)
            \* success is returned by the attempt that completed
            /\ (r.pc = "done" /\ r.result /\ r.gets > 0) =>
                   /\ r.resp = 200
                   /\ Exists(r.local) /\ fs[r.local].content = Body(r.url)
            \* failure on errors is returned after the MAX_RETRIES-th attempt
            /\ (r.pc = "done" /\ ~r.result /\ r.gets > 0 /\ r.resp # 404) =>
                   r.gets = MAX_RETRIES

AllReturned == \A t \in DOMAIN task : task[t].pc = "done"

\* C5: whatever errors the attempts meet, the call issues at most
\* MAX_RETRIES GETs, sleeps RETRY_DELAY * k after failed attempt k, returns
\* success with the attempt that completes, returns failure after the
\* MAX_RETRIES-th failed attempt, and always returns.
C5_RetryBudget == [](RetryBudgetHolds) /\ <>(AllReturned)

\* C5 witness: five attempts met network errors or 5xx, with four sleeps
C5_Witness ==
    \E t \in DOMAIN task :
        /\ task[t].pc = "done" /\ task[t].result = FALSE
        /\ task[t].gets = MAX_RETRIES /\ task[t].resp \in {0, 500}
        /\ Len(task[t].sleeps) = MAX_RETRIES - 1

\* C6: a step returns success with no GET issued exactly when it is the
\* size test of a call that is not forced, whose destination exists and whose
\* probe answered 200 with a Content-Length equal to the local size; any
\* other size test goes on to the GET, and the GET is issued.
C6_SkipOnlyOnSizeMatch ==
    [][\A t \in DOMAIN task :
          task'[t] # task[t] =>
              LET r == task[t]
                  skipped == /\ task'[t].pc = "done" /\ task'[t].result
                             /\ task'[t].gets = 0
                  match == /\ ~r.force /\ Exists(r.local)
                           /\ ~r.head.exc /\ r.head.status = 200
                           /\ r.head.clen # -1
                           /\ r.head.clen = GetSize(r.local)
              IN  /\ skipped <=> (r.pc = "check" /\ match)
                  /\ (r.pc = "check" /\ ~match) => (task'[t].pc = "get" /\ fs' = fs)
                  /\ r.pc = "get" => task'[t].gets = r.gets + 1]_vars

\* C6 witness: the fast path returned success without a GET
C6_Witness ==
    \E t \in DOMAIN task :
        /\ task[t].pc = "done" /\ task[t].result /\ task[t].gets = 0
        /\ ~task[t].force /\ Exists(task[t].local)

\* C19: no two fetch tasks that process_model has submitted for one
\* descriptor have the same destination, and so none share a temp path.
C19_DisjointDestinations ==
    \A t1, t2 \in DOMAIN task :
        t1 # t2 =>
            /\ task[t1].local # task[t2].local
            /\ TmpPath(task[t1].local) # TmpPath(task[t2].local)

\* the step of call t is a storage operation that failed: os.makedirs,
\* open(tmp_path, "wb"), os.remove or os.rename did not do its work
StorageFailed(t) ==
    \/ task[t].pc = "makedirs" /\ task'[t].pc \notin {"head", "check"}
    \/ task[t].pc = "open" /\ task'[t].pc # "write"
    \/ task[t].pc = "remove" /\ task'[t].pc # "rename"
    \/ task[t].pc = "rename" /\ ~(task'[t].pc = "done" /\ task'[t].result)

\* C17: a step in which a storage operation of the call fails ends the call
\* with failure; the call issues no further GET.
C17_StorageErrorEndsCall ==
    [][\A t \in DOMAIN task :
          StorageFailed(t) => task'[t].pc = "done" /\ ~task'[t].result]_vars

(***************************************************************************)
(* Claims about the mirror run (MirrorSpec)                                *)
(***************************************************************************)
\* the file at local exists and the server reports, with status 200, a
\* Content-Length equal to its size
SizesMatch(local, h) ==
    /\ Exists(local)
    /\ ~h.exc
    /\ h.status = 200
    /\ h.clen = GetSize(local)

\* C7: in a second run, every fetch of a model descriptor or of a dependent
\* file whose local copy exists and whose size the server reports equal to
\* the local size returns success without any GET and leaves the disk as it
\* is: the fast-path skip fires.
C7_SecondRunSkips ==
    [][mn.pc # "none" /\ mn.run > 1 =>
         /\ \A t \in DOMAIN task :
               (/\ t \in DOMAIN task'
                /\ task[t].pc = "queued"
                /\ task'[t].pc = "done"
                /\ SizesMatch(task[t].local, task'[t].head))
               => task'[t].result /\ task'[t].gets = 0 /\ fs' = fs
         /\ (/\ mn.pc = "loop"
             /\ mn.todo # {}
             /\ mn'.cur = NextModel
             /\ SizesMatch(PrimaryCall(mn.master_data[NextModel]).local,
                           mn'.primary.head))
            => mn'.primary.result /\ mn'.primary.gets = 0 /\ fs' = fs]_vars

\* C7 witness: in the second run a descriptor mirrored by the first run and
\* its dependent file, mirrored too, were both skipped
C7_Witness ==
    /\ mn.pc = "deps"
    /\ mn.run = 2
    /\ mn.primary.result
    /\ mn.primary.gets = 0
    /\ fs[mn.where[mn.cur]].content = Body(mn.master_data[mn.cur].path)
       \/ fs[mn.where[mn.cur]].content = Body(remote[MasterUrl].entries[mn.cur].path)
    /\ \E t \in DOMAIN task :
          /\ task[t].pc = "done"
          /\ task[t].result
          /\ task[t].gets = 0
          /\ Exists(task[t].local)
          /\ fs[task[t].local].content = Body(task[t].url)

\* the run is in or past the loop over the model entries
InLoop ==
    mn.pc \in {"loop", "deps", "shutdown"} \/ (mn.pc = "exit" /\ mn.how = "completed")

\* the entries of the manifest as the server serves it
PreRun == remote[MasterUrl].entries

\* the entries whose primary fetch returned failure
Failed == {i \in DOMAIN mn.outcome : ~mn.outcome[i]}

\* some step of MirrorNext can be taken: main is at a statement, or it waits
\* in process_model, which can load, submit, return, or has a task that a
\* worker can run or has only finished tasks to collect
MirrorCanStep ==
    \/ mn.pc \in {"boot", "match", "master", "publish", "parse", "loop", "shutdown"}
    \/ /\ mn.pc = "deps"
       /\ \/ pm.pc \in {"load", "return"}
          \/ /\ pm.pc = "submit"
             /\ \/ pm.todo # {}
                \/ \E t \in DOMAIN task : task[t].pc = "queued"
                \/ \A f \in pm.futures : task[f].pc = "done"

\* the run has returned after the write-back of the manifest
Completed == mn.pc = "exit" /\ mn.how = "completed"

\* C8: an entry whose primary fetch failed keeps its pre-run path, in memory
\* and in the persisted manifest; process_model and its fetch tasks exist
\* only for an entry whose primary fetch succeeded; a run never stops between
\* its first entry and the write-back: it can always take a step, and it
\* returns early only before the first entry; a completed run has visited
\* every entry and persisted the manifest.
C8_FailedEntryUntouched ==
    /\ InLoop => \A i \in Failed : mn.master_data[i] = PreRun[i]
    /\ mn.pc # "none" /\ (pm.pc # "none" \/ task # << >>) =>
          mn.pc = "deps" /\ mn.outcome[mn.cur]
    /\ mn.pc \notin {"none", "exit"} => MirrorCanStep
    /\ mn.pc = "exit" /\ ~Completed => DOMAIN mn.outcome = {}
    /\ Completed =>
          /\ DOMAIN mn.outcome = ModelsOf(PreRun)
          /\ mn.master_local \in DOMAIN saved
          /\ saved[mn.master_local].entries = mn.master_data
          /\ \A i \in Failed : saved[mn.master_local].entries[i].path = PreRun[i].path

\* C8 witness: a run completed in which the primary fetch of one entry
\* failed and that of a later entry succeeded
C8_Witness ==
    /\ Completed
    /\ \E i \in Failed : \E j \in DOMAIN mn.outcome : i < j /\ mn.outcome[j]
    /\ \A i \in Failed : saved[mn.master_local].entries[i].path = PreRun[i].path

\* C9: in the persisted manifest, the path of every entry that was rewritten
\* names the file at which the entry's primary descriptor was written.
C9_RewrittenPathResolves ==
    Completed =>
        \A i \in DOMAIN mn.outcome :
            mn.outcome[i] =>
                NormPath(saved[mn.master_local].entries[i].path) = mn.where[i]

(***************************************************************************)
(* Claims about the order of the steps of a run (MirrorSpec)               *)
(***************************************************************************)
\* every fetch task has finished
Quiet == \A t \in DOMAIN task : task[t].pc = "done"

C15_NoMatchAbortsCleanly ==
    (mn.pc # "none" /\ ~remote[INDEX_JS_URL].matched) =>
        /\ mn.pc \in {"boot", "match", "exit"}
        /\ mn.pc = "exit" => mn.how \in {"no bootstrap", "no match"}
        /\ mn.pc = "exit" => DOMAIN fs = {}
        /\ DOMAIN fs \subseteq {TempName(mn.run)}
        /\ saved = NoSaved
        /\ DOMAIN mn.outcome = {}
        /\ task = << >>
        /\ pm = NoCall

\* C15 witness: a run has ended because the pattern did not match
C15_Witness ==
    /\ mn.pc = "exit"
    /\ mn.how = "no match"
    /\ ~remote[INDEX_JS_URL].matched

\* C16: a run whose manifest does not parse ends without an exception
\* leaving main, with no manifest written and no entry visited.
C16_ParseFailureExitsCleanly ==
    (mn.pc = "exit" /\ remote[MasterUrl] = BadJson) =>
        /\ mn.how # "raised"
        /\ mn.master_local \notin DOMAIN saved
        /\ DOMAIN mn.outcome = {}

\* the local relative form of the path of a manifest entry
LocalForm(url) == ReplaceChar(HostRel(url), "\\", "/")

\* C20: process_model runs and fetch tasks exist only for an entry whose
\* primary fetch returned success and whose path is already in the local
\* relative form; the step that ends a primary fetch either rewrites the path
\* and enters process_model, or, on failure, leaves the entry as it was and
\* returns to the loop with no task; a task is submitted only by
\* process_model.
C20_EntryStateMachine ==
    [][/\ (mn.pc # "none" /\ (pm.pc \in {"load", "submit"} \/ task # << >>)) =>
             /\ mn.outcome[mn.cur]
             /\ mn.master_data[mn.cur].path = LocalForm(PreRun[mn.cur].path)
       /\ (mn.pc = "loop" /\ mn'.pc # "none" /\ mn'.cur # mn.cur /\ mn'.cur # 0) =>
             /\ task' = << >>
             /\ IF mn'.outcome[mn'.cur]
                THEN /\ mn'.pc = "deps"
                     /\ pm'.pc = "load"
                     /\ mn'.master_data[mn'.cur].path = LocalForm(PreRun[mn'.cur].path)
                ELSE /\ mn'.pc = "loop"
                     /\ pm' = NoCall
                     /\ mn'.master_data[mn'.cur] = PreRun[mn'.cur]
       /\ (mn.pc # "none" /\ Len(task') > Len(task)) => pm.pc = "submit"]_vars

\* C20 witness: a dependent fetch task of an entry exists and the entry's
\* path is the local relative form, no longer the URL it was
C20_Witness ==
    /\ mn.pc = "deps"
    /\ task # << >>
    /\ mn.master_data[mn.cur].path = LocalForm(PreRun[mn.cur].path)
    /\ mn.master_data[mn.cur].path # PreRun[mn.cur].path

(***************************************************************************)
(* Claims about an interrupted run (SigintSpec)                            *)
(***************************************************************************)
\* C11: when the run has exited, the manifest file on disk is a whole
\* document, never one that open(master_local, "w") has truncated and
\* json.dump has not finished.
C11_ManifestNeverTorn ==
    (mn.pc = "exit" /\ mn.master_local \in DOMAIN saved) =>
        saved[mn.master_local].tag # "partial"

\* C12: when the run has exited, however it ended, the temp bootstrap file
\* does not exist.
C12_TempRemovedOnExit ==
    mn.pc = "exit" => TempName(mn.run) \notin DOMAIN fs

\* the except clause of line 270 has run
Handled == mn.pc \in {"join", "exit"} /\ mn.how = "interrupted"

\* a worker is running task r
Running(r) == r.pc \notin {"queued", "cancelled", "done"}

C22_PublishedScriptResolves ==
    LET index_js == PathJoin(TARGET_SUBDIR, <<FINAL_INDEX_JS_NAME>>)
    IN  index_js \in DOMAIN saved =>
            LET local == saved[index_js].json_name
            IN  /\ local \in DOMAIN fs
                /\ fs[local].content = Body(MasterUrl)
                /\ fs[local].open = {}
                /\ local \in DOMAIN saved => saved[local].tag # "partial"

(***************************************************************************)
(* Claims about src/1model.py (LegacySpec)                                 *)
(***************************************************************************)
\* C18: in the manifest that process_live2d_master_json has written, no item
\* carries "_charName" or "_costumeName", every item has the keys it had in
\* the manifest that was read, every key but "path" has the value it had, and
\* "path" differs only for an item whose primary fetch succeeded.
C18_NoTransientFieldPersisted ==
    MasterJsonPath \in DOMAIN saved =>
        LET written == saved[MasterJsonPath].entries
            read == remote[MasterUrl].entries
        IN  /\ Len(written) = Len(read)
            /\ \A k \in 1..Len(read) :
                  /\ DOMAIN written[k].fields \cap Transient = {}
                  /\ DOMAIN written[k].fields = DOMAIN read[k].fields
                  /\ \A key \in DOMAIN read[k].fields \ {"path"} :
                        written[k].fields[key] = read[k].fields[key]
                  /\ written[k].char = read[k].char
                  /\ k \notin mn.downloaded => written[k] = read[k]

\* C18 witness: the manifest was written after one primary fetch succeeded
\* and one failed
C18_Witness ==
    /\ mn.pc = "return"
    /\ mn.how = "written"
    /\ MasterJsonPath \in DOMAIN saved
    /\ mn.downloaded # {}
    /\ \E k \in 1..Len(mn.path_list) : mn.path_list[k] \notin mn.downloaded

(***************************************************************************)
(* Claims about src/2audio.py (AudioSpec)                                  *)
(***************************************************************************)
\* C21: a call of download_file of src/2audio.py that returns False because a
\* request failed or the status was an HTTP error has made MAX_RETRIES
\* attempts: it does not give up after fewer.
C21_RetriesBeforeFailing ==
    \A t \in DOMAIN task :
        (task[t].pc = "done" /\ ~task[t].result /\ task[t].why \in {"request", "http"})
            => task[t].gets = AUDIO_MAX_RETRIES

(***************************************************************************)
(* PathSpec: safe_path_join(base, rel_path) on every base directory of     *)
(* SampleBases and every reference of at most MaxRefLen characters         *)
(***************************************************************************)
PathAlphabet == {"a", ".", "/", "\\", ":"}

\* the base directories: "" (main, line 254), and local_dir of process_model
SampleBases == {<< >>, DirName(ModelLocal), <<"m", "/", "d">>}

RawRefs == UNION {[1..n -> PathAlphabet] : n \in 0..MaxRefLen}

PathInit ==
    /\ \E base \in SampleBases, rel_path \in RawRefs :
          sanit = [pc |-> "call", base |-> base, rel_path |-> rel_path, out |-> << >>]
    /\ task = << >>
    /\ fs = [q \in {} |-> OldCopy]
    /\ remote = NoRemote
    /\ pm = NoCall
    /\ mn = NoMain
    /\ saved = NoSaved

\* the call returns
Sanitize ==
    /\ sanit.pc = "call"
    /\ sanit' = [sanit EXCEPT !.pc = "ret",
                              !.out = safe_path_join(sanit.base, sanit.rel_path)]
    /\ UNCHANGED <<task, fs, remote, pm, mn, saved>>

PathNext == Sanitize

PathSpec == PathInit /\ [][PathNext]_vars

\* the components of a normalized path
Components(path) ==
    LET NotDot(c) == c # <<".">>
    IN  SelectSeq(DropEmpty(Split(NormPath(path), SLASH)), NotDot)

\* path is dir itself or a path beneath dir
Within(dir, path) ==
    LET d == Components(dir)
        c == Components(path)
    IN  /\ StartsWith(NormPath(path), SLASH) <=> StartsWith(NormPath(dir), SLASH)
        /\ Len(c) >= Len(d)
        /\ SubSeq(c, 1, Len(d)) = d
        /\ Len(c) > Len(d) => c[Len(d) + 1] # <<".", ".">>

\* C10: the path safe_path_join returns stays at or beneath the base
\* directory, for every base and raw reference.  (The claim says strictly
\* beneath; the base itself is let pass here, so that whatever violates this
\* has left the base directory.)
C10_Confined == sanit.pc = "ret" => Within(sanit.base, sanit.out)

====
